---- MODULE Spec2Model ----
(***************************************************************************)
(* The ingestion pipeline of setup_db.py (extract_content) over the sink   *)
(* of database.py: the clean slate, init_db, the opening of the document,  *)
(* the line loop with its glued-text repair, flush_buffer with its regular *)
(* expressions, the image pass and the final commit.                       *)
(* After it, the sessions of app.py over the table it leaves: the exam     *)
(* simulator, the study mode and the pages of the bulk editor.              *)
(*                                                                         *)
(* Text is modelled character by character: a Python str is a TLA+ string, *)
(* s[i:j] is SubSeq(s, i+1, j), and every regular expression of the source *)
(* is an operator that matches the way Python's re does on the alphabet    *)
(* of the documents below (ASCII letters, digits, blank, newline and       *)
(* punctuation).                                                           *)
(***************************************************************************)
EXTENDS Integers, Sequences, FiniteSets, TLC

(***************************************************************************)
(* Characters and elementary string functions                              *)
(***************************************************************************)

\* s[i] for a 1-based i; "" outside the string
Ch(s, i) == IF i >= 1 /\ i <= Len(s) THEN SubSeq(s, i, i) ELSE ""

\* str.isspace / the class \s
IsSpace(c) == c \in {" ", "\n", "\t", "\r"}

\* the class \d
IsDigit(c) == c \in {"0", "1", "2", "3", "4", "5", "6", "7", "8", "9"}

UpperLetters == "ABCDEFGHIJKLMNOPQRSTUVWXYZ"

LowerLetters == "abcdefghijklmnopqrstuvwxyz"

\* position of the one-character string c in the string abc, 0 when absent
IndexIn(abc, c) ==
  LET hits == {i \in 1..Len(abc) : SubSeq(abc, i, i) = c}
  IN  IF hits = {} THEN 0 ELSE CHOOSE i \in hits : TRUE

LowerCh(c) ==
  LET i == IndexIn(UpperLetters, c)
  IN  IF i = 0 THEN c ELSE SubSeq(LowerLetters, i, i)

UpperCh(c) ==
  LET i == IndexIn(LowerLetters, c)
  IN  IF i = 0 THEN c ELSE SubSeq(UpperLetters, i, i)

RECURSIVE Lower(_)
\* str.lower(), character by character (the two halves, then each half's);
\* also the folding that re.IGNORECASE applies to both sides
Lower(s) ==
  IF Len(s) = 0 THEN ""
  ELSE IF Len(s) = 1 THEN LowerCh(s)
  ELSE Lower(SubSeq(s, 1, Len(s) \div 2))
         \o Lower(SubSeq(s, Len(s) \div 2 + 1, Len(s)))

RECURSIVE Upper(_)
\* str.upper()
Upper(s) ==
  IF Len(s) = 0 THEN ""
  ELSE IF Len(s) = 1 THEN UpperCh(s)
  ELSE Upper(SubSeq(s, 1, Len(s) \div 2))
         \o Upper(SubSeq(s, Len(s) \div 2 + 1, Len(s)))

\* s[i-1:] starts with lit (i is 1-based)
StartsAt(s, i, lit) ==
  /\ i >= 1
  /\ i + Len(lit) - 1 <= Len(s)
  /\ SubSeq(s, i, i + Len(lit) - 1) = lit

\* s[i-1:]
From(s, i) == SubSeq(s, i, Len(s))

\* lit in s
Contains(s, lit) == \E i \in 1..(Len(s) + 1) : StartsAt(s, i, lit)

\* the first position at or after i that holds no white space (\s* is greedy)
RECURSIVE SkipSpaces(_, _)
SkipSpaces(s, i) ==
  IF i <= Len(s) /\ IsSpace(SubSeq(s, i, i)) THEN SkipSpaces(s, i + 1) ELSE i

\* the first position at or after i that holds no digit (\d+ is greedy)
RECURSIVE SkipDigits(_, _)
SkipDigits(s, i) ==
  IF i <= Len(s) /\ IsDigit(SubSeq(s, i, i)) THEN SkipDigits(s, i + 1) ELSE i

\* the last position at or before j that holds no white space
RECURSIVE SkipSpacesBack(_, _)
SkipSpacesBack(s, j) ==
  IF j >= 1 /\ IsSpace(SubSeq(s, j, j)) THEN SkipSpacesBack(s, j - 1) ELSE j

\* str.strip()
Strip(s) == SubSeq(s, SkipSpaces(s, 1), SkipSpacesBack(s, Len(s)))

\* the least element of a non-empty set of integers
Least(S) == CHOOSE x \in S : \A y \in S : x <= y

\* the position of the first lit at or after i, Len(s)+1 when there is none
Find(s, lit, i) ==
  Least({j \in i..Len(s) : StartsAt(s, j, lit)} \cup {Len(s) + 1})

\* the position of the first "\n" at or after i, Len(s)+1 when there is none
NextNl(s, i) == Find(s, "\n", i)

RECURSIVE SplitFrom(_, _)
SplitFrom(s, i) ==
  LET j == NextNl(s, i)
  IN  IF j > Len(s) THEN <<SubSeq(s, i, Len(s))>>
      ELSE <<SubSeq(s, i, j - 1)>> \o SplitFrom(s, j + 1)

\* s.split('\n'): never empty, "" gives [""]
SplitLines(s) == SplitFrom(s, 1)

RECURSIVE JoinLines(_)
\* "\n".join(lines)
JoinLines(lines) ==
  IF Len(lines) = 0 THEN ""
  ELSE IF Len(lines) = 1 THEN lines[1]
  ELSE lines[1] \o "\n" \o JoinLines(Tail(lines))

RECURSIVE RemoveAll(_, _, _)
RemoveAll(s, lit, i) ==
  IF Find(s, lit, i) > Len(s) THEN SubSeq(s, i, Len(s))
  ELSE SubSeq(s, i, Find(s, lit, i) - 1)
         \o RemoveAll(s, lit, Find(s, lit, i) + Len(lit))

\* s.replace(lit, ""), left to right, occurrences not overlapping
Remove(s, lit) == RemoveAll(s, lit, 1)

(***************************************************************************)
(* The regular expressions of extract_content.  A match is tried at every  *)
(* position from the left; at a position the alternatives are tried in the *)
(* order the pattern gives them, the first that succeeds being the match.  *)
(* An operator that matches at a position returns a position of the text   *)
(* (of the first digit of a group, or after the match), 0 on failure.      *)
(***************************************************************************)

\* s[i-1:] starts with lit under re.IGNORECASE (lit is in lower case)
StartsAtCI(s, i, lit) ==
  /\ i >= 1
  /\ i + Len(lit) - 1 <= Len(s)
  /\ Lower(SubSeq(s, i, i + Len(lit) - 1)) = lit

\* the first of two alternatives that succeeds
Pick(a, b) == IF a > 0 THEN a ELSE b

\* what a failed search returns (None)
NoMatch == [found |-> FALSE, start |-> 0, end |-> 0, group1 |-> ""]

\* the match object of a match at position p whose group 1 starts at d:
\* start and end as Python's 0-based offsets, group1 the digits
MatchObject(s, p, d) ==
  [found |-> TRUE, start |-> p - 1, end |-> SkipDigits(s, d) - 1,
   group1 |-> SubSeq(s, d, SkipDigits(s, d) - 1)]

\* \s*(\d+) from position g: the position of the first digit
DigitsAfter(s, g) ==
  IF IsDigit(Ch(s, SkipSpaces(s, g))) THEN SkipSpaces(s, g) ELSE 0

\* (?:#|No\.?|Num) at position j1, then \s*(\d+); "No." is tried before "No"
QGroup(s, j1) ==
  IF StartsAtCI(s, j1, "#") THEN DigitsAfter(s, j1 + 1)
  ELSE IF StartsAtCI(s, j1, "no")
    THEN Pick(IF StartsAtCI(s, j1, "no.") THEN DigitsAfter(s, j1 + 3) ELSE 0,
              DigitsAfter(s, j1 + 2))
  ELSE IF StartsAtCI(s, j1, "num") THEN DigitsAfter(s, j1 + 3)
  ELSE 0

\* \s*(?:#|No\.?|Num)?\s*(\d+) from position j: the optional group is tried
\* first, then skipped
QRest(s, j) == Pick(QGroup(s, SkipSpaces(s, j)), DigitsAfter(s, j))

\* q_start_pattern at position i: "Question" is tried before "Q"
QStartAt(s, i) ==
  Pick(IF StartsAtCI(s, i, "question") THEN QRest(s, i + 8) ELSE 0,
       IF StartsAtCI(s, i, "q") THEN QRest(s, i + 1) ELSE 0)

\* the match of q_start_pattern at position p, None past the end of s
QStartObject(s, p) ==
  IF p > Len(s) THEN NoMatch ELSE MatchObject(s, p, QStartAt(s, p))

\* q_start_pattern.search(s): the leftmost match
QStartSearch(s) ==
  QStartObject(s, Least({p \in 1..Len(s) : QStartAt(s, p) > 0} \cup {Len(s) + 1}))

\* q_start_pattern.match(s) is not None: a match at offset 0
QStartMatch(s) == QStartAt(s, 1) > 0

\* topic_pattern at position i: Topic\s*:?\s*(\d+), the colon tried first
TopicAt(s, i) ==
  IF ~StartsAtCI(s, i, "topic") THEN 0
  ELSE Pick(IF Ch(s, SkipSpaces(s, i + 5)) = ":"
            THEN DigitsAfter(s, SkipSpaces(s, i + 5) + 1) ELSE 0,
            DigitsAfter(s, i + 5))

\* the match of topic_pattern at position p, None past the end of s
TopicObject(s, p) ==
  IF p > Len(s) THEN NoMatch ELSE MatchObject(s, p, TopicAt(s, p))

\* topic_pattern.search(s)
TopicSearch(s) ==
  TopicObject(s, Least({p \in 1..Len(s) : TopicAt(s, p) > 0} \cup {Len(s) + 1}))

\* \s*[:\-\.]\s* from position j: the position after the match
AnsSep(s, j) ==
  IF Ch(s, SkipSpaces(s, j)) \in {":", "-", "."}
  THEN SkipSpaces(s, SkipSpaces(s, j) + 1) ELSE 0

\* (?:Answer|Ans)\s*[:\-\.]\s* from position j, "Answer" tried before "Ans"
AnsKwAt(s, j) ==
  Pick(IF StartsAtCI(s, j, "answer") THEN AnsSep(s, j + 6) ELSE 0,
       IF StartsAtCI(s, j, "ans") THEN AnsSep(s, j + 3) ELSE 0)

\* answer_split_pattern at position i: the position after the match; the
\* optional "Correct\s*" is tried first, then skipped
AnsAt(s, i) ==
  Pick(IF StartsAtCI(s, i, "correct") THEN AnsKwAt(s, SkipSpaces(s, i + 7)) ELSE 0,
       AnsKwAt(s, i))

\* the position of the leftmost match of answer_split_pattern at or after
\* from, Len(s)+1 when there is none
AnsFind(s, from) ==
  Least({p \in from..Len(s) : AnsAt(s, p) > 0} \cup {Len(s) + 1})

RECURSIVE ReSplit(_, _, _)
\* the pieces of s[from-1:], p being the position of the next match
ReSplit(s, from, p) ==
  IF p > Len(s) THEN <<SubSeq(s, from, Len(s))>>
  ELSE <<SubSeq(s, from, p - 1)>>
         \o ReSplit(s, AnsAt(s, p), AnsFind(s, AnsAt(s, p)))

\* re.split(answer_split_pattern, s, flags=re.IGNORECASE): the pieces between
\* the matches, all of them
AnswerSplit(s) == ReSplit(s, 1, AnsFind(s, 1))

\* [\.\)\-]\s+ at position j: the position of the content, after the spaces
OptionSep(line, j) ==
  IF Ch(line, j) \in {".", ")", "-"} /\ IsSpace(Ch(line, j + 1))
  THEN SkipSpaces(line, j + 1) ELSE 0

\* \)?[\.\)\-]\s+ at position j: the parenthesis is tried first, then skipped
OptionTail(line, j) ==
  Pick(IF Ch(line, j) = ")" THEN OptionSep(line, j + 1) ELSE 0,
       OptionSep(line, j))

\* \(?([A-F])\)?[\.\)\-]\s+ with the letter at position j: the position of
\* the content
OptionLetter(line, j) ==
  IF Ch(line, j) \in {"A", "B", "C", "D", "E", "F"} THEN OptionTail(line, j + 1)
  ELSE 0

\* ^\s*\(?([A-F])\)?[\.\)\-]\s+(.*) on a line, case-sensitive: the position
\* of group 2, the letter of group 1 being the character two or three
\* positions before the separator
OptionAt(line) ==
  Pick(IF Ch(line, SkipSpaces(line, 1)) = "("
       THEN OptionLetter(line, SkipSpaces(line, 1) + 1) ELSE 0,
       OptionLetter(line, SkipSpaces(line, 1)))

\* the position of the letter of group 1
OptionLetterPos(line) ==
  IF Ch(line, SkipSpaces(line, 1)) = "(" THEN SkipSpaces(line, 1) + 1
  ELSE SkipSpaces(line, 1)

\* option_pattern.match(line): group 1 and group 2 (.* stops at a newline)
OptionMatch(line) ==
  IF OptionAt(line) = 0 THEN [found |-> FALSE, letter |-> "", content |-> ""]
  ELSE [found |-> TRUE, letter |-> Ch(line, OptionLetterPos(line)),
        content |-> SubSeq(line, OptionAt(line), NextNl(line, OptionAt(line)) - 1)]

\* the position after "x." and \s*, x being a letter in lower case
LetterDot(s, i, x) == IF StartsAtCI(s, i, x) THEN SkipSpaces(s, i + 2) ELSE 0

\* image_options_pattern at position i: A\.\s*B\.\s*C\.\s*D\.
ImageOptionsAt(s, i) ==
  /\ LetterDot(s, i, "a.") > 0
  /\ LetterDot(s, LetterDot(s, i, "a."), "b.") > 0
  /\ StartsAtCI(s, LetterDot(s, LetterDot(s, LetterDot(s, i, "a."), "b."), "c."),
                "d.")

\* image_options_pattern.search(s) is not None
ImageOptionsSearch(s) == \E i \in 1..Len(s) : ImageOptionsAt(s, i)

\* Topic\s+\d+\s*$ at position i (case-sensitive): the text ends after the
\* digits and the white space
TopicTailAt(s, i) ==
  /\ StartsAt(s, i, "Topic")
  /\ IsSpace(Ch(s, i + 5))
  /\ DigitsAfter(s, i + 5) > 0
  /\ SkipSpaces(s, SkipDigits(s, DigitsAfter(s, i + 5))) > Len(s)

\* re.sub(r"Topic\s+\d+\s*$", "", s)
TopicTailSub(s) ==
  SubSeq(s, 1, Least({i \in 1..Len(s) : TopicTailAt(s, i)} \cup {Len(s) + 1}) - 1)

\* the JSON escape of one character
JsonCh(c) ==
  IF c = "\"" THEN "\\\""
  ELSE IF c = "\\" THEN "\\\\"
  ELSE IF c = "\n" THEN "\\n"
  ELSE IF c = "\t" THEN "\\t"
  ELSE IF c = "\r" THEN "\\r"
  ELSE c

RECURSIVE JsonChars(_)
JsonChars(s) ==
  IF Len(s) = 0 THEN ""
  ELSE IF Len(s) = 1 THEN JsonCh(s)
  ELSE JsonChars(SubSeq(s, 1, Len(s) \div 2))
         \o JsonChars(SubSeq(s, Len(s) \div 2 + 1, Len(s)))

RECURSIVE JsonItems(_)
JsonItems(list) ==
  IF Len(list) = 0 THEN ""
  ELSE IF Len(list) = 1 THEN "\"" \o JsonChars(list[1]) \o "\""
  ELSE "\"" \o JsonChars(list[1]) \o "\", " \o JsonItems(Tail(list))

\* json.dumps(list of str), ASCII text
JsonDumps(list) == "[" \o JsonItems(list) \o "]"

\* the character an escape of a JSON string stands for
JsonUnescape(c) ==
  IF c = "n" THEN "\n"
  ELSE IF c = "t" THEN "\t"
  ELSE IF c = "r" THEN "\r"
  ELSE c

\* a JSON value that could not be read
JsonError == [ok |-> FALSE, val |-> "", next |-> 0]

RECURSIVE JsonString(_, _)
\* the JSON string whose first character after the quote is at i: its
\* value and the position after its closing quote
JsonString(s, i) ==
  IF i > Len(s) THEN JsonError
  ELSE IF Ch(s, i) = "\"" THEN [ok |-> TRUE, val |-> "", next |-> i + 1]
  ELSE IF Ch(s, i) = "\\"
    THEN LET r == JsonString(s, i + 2)
         IN  [r EXCEPT !.val = JsonUnescape(Ch(s, i + 1)) \o @]
  ELSE LET r == JsonString(s, i + 1)
       IN  [r EXCEPT !.val = Ch(s, i) \o @]

RECURSIVE JsonArray(_, _)
\* the items of a JSON array of strings from the item at i on
JsonArray(s, i) ==
  IF Ch(s, i) # "\"" THEN [ok |-> FALSE, list |-> <<>>]
  ELSE LET r == JsonString(s, i + 1)
           at == SkipSpaces(s, r.next)
       IN  IF ~r.ok THEN [ok |-> FALSE, list |-> <<>>]
           ELSE IF Ch(s, at) = "]" /\ SkipSpaces(s, at + 1) > Len(s)
             THEN [ok |-> TRUE, list |-> <<r.val>>]
           ELSE IF Ch(s, at) = ","
             THEN LET rest == JsonArray(s, SkipSpaces(s, at + 1))
                  IN  [rest EXCEPT !.list = <<r.val>> \o @]
           ELSE [ok |-> FALSE, list |-> <<>>]

\* app.py lines 110-111 and 278-281: json.loads of the options column, []
\* when it raises (the column holds an array of strings or no JSON at all)
JsonLoads(s) ==
  IF Ch(s, SkipSpaces(s, 1)) # "[" THEN <<>>
  ELSE IF Ch(s, SkipSpaces(s, SkipSpaces(s, 1) + 1)) = "]"
          /\ SkipSpaces(s, SkipSpaces(s, SkipSpaces(s, 1) + 1) + 1) > Len(s)
    THEN <<>>
  ELSE IF JsonArray(s, SkipSpaces(s, SkipSpaces(s, 1) + 1)).ok
    THEN JsonArray(s, SkipSpaces(s, SkipSpaces(s, 1) + 1)).list
  ELSE <<>>

\* s.split(sep)[0]
SplitFirst(s, sep) == SubSeq(s, 1, Find(s, sep, 1) - 1)

(***************************************************************************)
(* The sink: the tables questions and parsing_errors of study_app.db       *)
(***************************************************************************)

\* SQL NULL (the value of a column no INSERT sets and that has no default)
NULL == "NULL"

\* the database file does not exist
NoDb == [exists |-> FALSE, questions |-> <<>>, parsing_errors |-> <<>>]

\* the file as init_db leaves it when it had to create it: both tables empty
EmptyDb == [exists |-> TRUE, questions |-> <<>>, parsing_errors |-> <<>>]

\* the rows of a table (a sequence in id order) that carry question_number n
RowsOf(table, n) == {k \in 1..Len(table) : table[k].question_number = n}

\* INSERT OR REPLACE: the conflicting row is replaced by the new one
InsertOrReplace(table, row) ==
  IF RowsOf(table, row.question_number) = {} THEN Append(table, row)
  ELSE [k \in 1..Len(table) |->
          IF table[k].question_number = row.question_number THEN row ELSE table[k]]

\* INSERT OR IGNORE INTO questions, question_number being UNIQUE
InsertOrIgnore(table, row) ==
  IF RowsOf(table, row.question_number) = {} THEN Append(table, row) ELSE table

\* a faulty variant of the UPDATE: a row is created for an unknown number
UpsertImagePath(table, path, n) ==
  IF RowsOf(table, n) = {}
  THEN Append(table, [question_number |-> n, question_text |-> NULL,
                      options |-> NULL, image_path |-> path,
                      correct_answer |-> "Unknown", topic |-> "General",
                      explanation |-> NULL, question_type |-> "standard",
                      flagged |-> 0])
  ELSE [k \in 1..Len(table) |->
          IF table[k].question_number = n
          THEN [table[k] EXCEPT !.image_path = path] ELSE table[k]]

\* UPDATE questions SET image_path = path WHERE question_number = n
UpdateImagePath(table, path, n) ==
  [k \in 1..Len(table) |->
     IF table[k].question_number = n THEN [table[k] EXCEPT !.image_path = path]
     ELSE table[k]]

(***************************************************************************)
(* flush_buffer                                                            *)
(***************************************************************************)

ImagePlaceholders ==
  <<"A. (Refer to Image)", "B. (Refer to Image)",
    "C. (Refer to Image)", "D. (Refer to Image)">>

InteractivePlaceholder == <<"(Interactive Question - Refer to Image/Explanation)">>

ParsingFailed == "Parsing Failed (No Options/Answer)"

\* the locals of a call of flush_buffer(lines, topic, page_ref) before step
\* 1, and what a call that returns early leaves: no statement
Returned(lines, topic, page_ref) ==
  [stmt |-> "none", lines |-> lines, topic |-> topic, page_ref |-> page_ref,
   q_num |-> "", q_type |-> "", text_block |-> JoinLines(lines),
   q_text_raw |-> "", ans_raw |-> "", has_visual_options |-> FALSE,
   options_list |-> <<>>, clean_q_lines |-> <<>>, final_q_text |-> ""]

\* step 1 (lines 66-68): the number of the first marker of the block
QuestionNumber(v) == [v EXCEPT !.q_num = QStartSearch(v.text_block).group1]

\* step 2 (lines 71-75)
QuestionType(v) ==
  [v EXCEPT !.q_type =
     IF Contains(Upper(v.text_block), "DRAG DROP") THEN "drag_drop"
     ELSE IF Contains(Upper(v.text_block), "SIMULATION") THEN "simulation"
     ELSE "standard"]

\* step 3 (lines 78-79): the two clean-ups, each followed by strip()
CleanupNoise(v) ==
  [v EXCEPT !.text_block =
     Strip(TopicTailSub(Strip(Remove(v.text_block, "Select and Place: Topic 1"))))]

\* steps 4 and 5 (lines 82-89), from the pieces of the split
AnswerOf(v, parts) ==
  [v EXCEPT !.q_text_raw = parts[1],
            !.ans_raw = IF Len(parts) > 1
                        THEN Strip(SplitLines(Strip(parts[2]))[1])
                        ELSE "Unknown"]

\* steps 4 and 5
SplitAnswer(v) == AnswerOf(v, AnswerSplit(v.text_block))

\* a faulty variant of lines 97-99: has_visual_options is not set
VisualOptionsNoFlag(v) ==
  IF ImageOptionsSearch(v.q_text_raw)
  THEN [v EXCEPT !.options_list = ImagePlaceholders]
  ELSE v

\* lines 97-99: the "A. B. C. D." line anywhere in the question part
VisualOptions(v) ==
  IF ImageOptionsSearch(v.q_text_raw)
  THEN [v EXCEPT !.has_visual_options = TRUE, !.options_list = ImagePlaceholders]
  ELSE v

\* a faulty variant of lines 109-117: an option line is also kept in the text
ScanOptionKeepsLine(v, line, opt_match) ==
  IF opt_match.found /\ ~v.has_visual_options
  THEN [v EXCEPT !.options_list =
          Append(@, Upper(opt_match.letter) \o ". " \o opt_match.content),
                 !.clean_q_lines = Append(@, line)]
  ELSE IF ~QStartMatch(line)
  THEN [v EXCEPT !.clean_q_lines = Append(@, line)]
  ELSE v

\* lines 109-117 for a stripped line and the match of option_pattern on it
ScanOption(v, line, opt_match) ==
  IF opt_match.found /\ ~v.has_visual_options
  THEN [v EXCEPT !.options_list =
          Append(@, Upper(opt_match.letter) \o ". " \o opt_match.content)]
  ELSE IF ~QStartMatch(line)
  THEN [v EXCEPT !.clean_q_lines = Append(@, line)]
  ELSE v

\* lines 103-117 for a stripped line
ScanLine(v, line) ==
  IF ImageOptionsSearch(line) THEN v ELSE ScanOption(v, line, OptionMatch(line))

RECURSIVE ScanLines(_, _, _)
\* lines 102-117: the loop over qlines = q_text_raw.split('\n'), from line k
ScanLines(v, qlines, k) ==
  IF k > Len(qlines) THEN v
  ELSE ScanLines(ScanLine(v, Strip(qlines[k])), qlines, k + 1)

\* line 119
FinalText(v) == [v EXCEPT !.final_q_text = Strip(JoinLines(v.clean_q_lines))]

\* step 6 (lines 92-119)
ExtractOptions(v) ==
  FinalText(ScanLines(VisualOptions(v), SplitLines(v.q_text_raw), 1))

\* a faulty variant of lines 123-124: the interactive placeholder wins
ExhibitFallbackStandardOnly(v) ==
  IF v.options_list = <<>> /\ v.q_type = "standard"
     /\ (Contains(Lower(v.final_q_text), "exhibit")
         \/ Contains(Lower(v.final_q_text), "refer to"))
  THEN [v EXCEPT !.options_list = ImagePlaceholders] ELSE v

\* step 7, lines 123-124
ExhibitFallback(v) ==
  IF v.options_list = <<>>
     /\ (Contains(Lower(v.final_q_text), "exhibit")
         \/ Contains(Lower(v.final_q_text), "refer to"))
  THEN [v EXCEPT !.options_list = ImagePlaceholders] ELSE v

\* step 7, lines 127-128
InteractiveFallback(v) ==
  IF v.options_list = <<>> /\ v.q_type # "standard"
  THEN [v EXCEPT !.options_list = InteractivePlaceholder] ELSE v

\* a faulty variant of the test of step 8: "or" for "and"
ToQuarantineAny(v) ==
  v.options_list = <<>> \/ v.ans_raw = "Unknown" \/ v.q_type = "standard"

\* step 8, line 133: the test that routes a block to parsing_errors
ToQuarantine(v) ==
  v.options_list = <<>> /\ v.ans_raw = "Unknown" /\ v.q_type = "standard"

\* step 8 (lines 133-141): the table the INSERT goes to
Route(v) ==
  [v EXCEPT !.stmt = IF ToQuarantine(v) THEN "parsing_errors" ELSE "questions"]

\* steps 1 to 8 for a block in which the marker was found: the locals at the
\* INSERT
ParseBlock(v) ==
  Route(InteractiveFallback(ExhibitFallback(ExtractOptions(SplitAnswer(
    CleanupNoise(QuestionType(QuestionNumber(v))))))))

\* a faulty variant of flush_buffer: a block without a marker is quarantined
FlushBufferKeepsAll(lines, topic, page_ref) ==
  IF lines = <<>> \/ ~QStartSearch(JoinLines(lines)).found
  THEN [Returned(lines, topic, page_ref) EXCEPT !.stmt = "parsing_errors"]
  ELSE ParseBlock(Returned(lines, topic, page_ref))

\* flush_buffer(lines, topic, page_ref): its locals when it returns, stmt
\* being the table of the statement it executed, if any
FlushBuffer(lines, topic, page_ref) ==
  IF lines = <<>> THEN Returned(lines, topic, page_ref)
  ELSE IF ~QStartSearch(JoinLines(lines)).found
    THEN Returned(lines, topic, page_ref)
  ELSE ParseBlock(Returned(lines, topic, page_ref))

\* the row of the INSERT of lines 137-141; the other columns take the
\* defaults of init_db
QuestionRow(f) ==
  [question_number |-> f.q_num, question_text |-> f.final_q_text,
   options |-> JsonDumps(f.options_list), image_path |-> NULL,
   correct_answer |-> f.ans_raw, topic |-> f.topic, explanation |-> NULL,
   question_type |-> f.q_type, flagged |-> 0]

\* the row of the INSERT of lines 134-135
ErrorRow(f) ==
  [raw_text |-> f.text_block, error_reason |-> ParsingFailed,
   source_page |-> f.page_ref]

\* the table questions after the statement of f
QuestionsAfter(table, f) ==
  IF f.stmt = "questions" THEN InsertOrIgnore(table, QuestionRow(f)) ELSE table

\* the table parsing_errors after the statement of f
ErrorsAfter(table, f) ==
  IF f.stmt = "parsing_errors" THEN Append(table, ErrorRow(f)) ELSE table

(***************************************************************************)
(* The documents                                                           *)
(***************************************************************************)

\* the longest document, in pages
MaxPages == 2

\* how many times extract_content is called
MaxRuns == 2

\* The pages a document is made of.  text is page.get_text("text"); clip is
\* the text fitz returns for the rectangle around the first anchor; image is
\* "none" (get_images is empty), "ok", or "raises" (extract_image or
\* save_image raises inside the try of the image pass).
PagePool ==
  << [text  |-> "Topic 1\nQuestion #1\nStem text\nA. Foo\nB. Bar\nAnswer: A",
      clip  |-> "Question #1",
      image |-> "ok"],
     [text  |-> "Question #2\nRefer to the exhibit.\nend of prior stemQuestion #7 New stem A. X B. Y Answer: B",
      clip  |-> "Question #2\nRefer to the",
      image |-> "raises"],
     [text  |-> "Question #5\nSome text\n\n  Topic 3  ",
      clip  |-> "Question #5",
      image |-> "ok"],
     [text  |-> "Question #1 (see Q9)\nOther stem\nA. B. C. D.\nC. Coax\nAnswer: C Ans: D",
      clip  |-> "Question",
      image |-> "ok"],
     [text  |-> "see the exhibit\nDRAG DROP\nAnswer:",
      clip  |-> "",
      image |-> "none"] >>

\* a document: the pages fitz.open gives, as indices into the pool
Documents == UNION {[1..n -> 1..Len(PagePool)] : n \in 0..MaxPages}

(***************************************************************************)
(* The state                                                               *)
(***************************************************************************)

VARIABLES
  doc,            \* the document at PDF_PATH
  page_lines,     \* page.get_text("text").split('\n') of each page of doc
  disk,           \* study_app.db as committed: its two tables, or no file
  questions,      \* the table questions as the connection conn sees it
  parsing_errors, \* the table parsing_errors as conn sees it
  files,          \* the files under IMAGE_DIR
  pc,             \* where extract_content is; "idle" between calls
  status,         \* how the last call ended
  run,            \* the calls of extract_content so far
  completed,      \* the calls that reached conn.commit()
  current_topic,  \* the locals of extract_content
  buffer,
  page_num,
  i,              \* the page of the main loop, 1-based
  ln,             \* the line of that page the loop is at
  ip,             \* the page of the image loop
  log,            \* the calls of flush_buffer of this call, in order
  opened,         \* the buffers this call started, in order: for each the
                  \* page and line of the line that started it and the
                  \* topic in force then; the k-th is the k-th flushed
  atCall,         \* disk as it was when this call started
  exam_active,    \* st.session_state of app.py: the key exam_active is set
  exam_submitted,
  exam_questions, \* the rows drawn for the exam, each by its id
  exam_answers,   \* the dict {id: option}, a function on the answered ids
  exam_flags,
  exam_current_idx,
  expired,        \* the clock: 120 minutes have passed since exam_start_time
  exam_score,     \* the score the results view shows, NULL when not shown
  study_index,
  study_choice,   \* what the study form showed at its last check: the
  study_verdict,  \* option checked and the verdict given
  editor_page,
  total_rows,     \* the COUNT(*) of the rows the bulk editor pages over
  editor_rows,    \* the number of rows of the page the editor shows
  event,          \* the last event the app handled
  options         \* json.loads of the options column of each row of the
                  \* table the app reads, by id; [] where it raises

\* the part of the session each mode of the app keeps
exam == <<exam_active, exam_submitted, exam_questions, exam_answers,
          exam_flags, exam_current_idx, expired, exam_score>>
study == <<study_index, study_choice, study_verdict>>
editor == <<editor_page, total_rows, editor_rows>>
app == <<exam, study, editor, event, options>>

vars == <<doc, page_lines, disk, questions, parsing_errors, files, pc,
          status, run, completed, current_topic, buffer, page_num, i, ln, ip, log, opened,
          atCall, app>>

\* the document and the text of its pages
document == <<doc, page_lines>>

locals == <<current_topic, buffer, page_num, i, ln, ip, opened>>

\* the lines of the pages of the pool: text.split('\n')
PoolLines == [p \in 1..Len(PagePool) |-> SplitLines(PagePool[p].text)]

\* the lines of page k of the document
PageLines(k) == page_lines[k]

\* a browser session that has not opened the exam or the study mode
NoSession ==
  /\ exam_active = FALSE
  /\ exam_submitted = FALSE
  /\ exam_questions = <<>>
  /\ exam_answers = <<>>
  /\ exam_flags = {}
  /\ exam_current_idx = 0
  /\ expired = FALSE
  /\ exam_score = NULL
  /\ study_index = 0
  /\ study_choice = NULL
  /\ study_verdict = NULL
  /\ event = "none"

\* app.py line 417
page_size == 50

\* get_questions_paginated without filters: the rows LIMIT and OFFSET leave
\* of the table in id order, and the COUNT(*) of the table
GetQuestionsPaginated(table, limit, offset) ==
  [df |-> SubSeq(table, offset + 1,
                 IF offset + limit < Len(table) THEN offset + limit ELSE Len(table)),
   total |-> Len(table)]

\* what a render of the bulk editor on page p shows of the table
EditorShows(table, p) ==
  /\ total_rows = GetQuestionsPaginated(table, page_size, p * page_size).total
  /\ editor_rows = Len(GetQuestionsPaginated(table, page_size, p * page_size).df)

\* the first render of the bulk editor
EditorOpened(table) == editor_page = 0 /\ EditorShows(table, 0)

Init ==
  /\ doc \in Documents
  /\ page_lines = [k \in 1..Len(doc) |-> PoolLines[doc[k]]]
  /\ disk = NoDb
  /\ questions = <<>>
  /\ parsing_errors = <<>>
  /\ files = {}
  /\ pc = "idle"
  /\ status = "none"
  /\ run = 0
  /\ completed = 0
  /\ current_topic = "General"
  /\ buffer = <<>>
  /\ page_num = 1
  /\ i = 1
  /\ ln = 1
  /\ ip = 1
  /\ log = <<>>
  /\ opened = <<>>
  /\ atCall = NoDb
  /\ options = <<>>
  /\ NoSession
  /\ EditorOpened(<<>>)

(***************************************************************************)
(* extract_content                                                         *)
(***************************************************************************)

\* a faulty variant of the clean slate: the old file is kept
CleanSlateKeeps ==
  /\ pc = "idle"
  /\ run < MaxRuns
  /\ run' = run + 1
  /\ atCall' = disk
  /\ log' = <<>>
  /\ pc' = "init_db"
  /\ status' = "running"
  /\ UNCHANGED <<app, document, disk, questions, parsing_errors, files, completed, locals>>

\* lines 24-27: the old database file, if there is one, is removed
CleanSlate ==
  /\ pc = "idle"
  /\ run < MaxRuns
  /\ run' = run + 1
  /\ atCall' = disk
  /\ log' = <<>>
  /\ disk' = NoDb
  /\ pc' = "init_db"
  /\ status' = "running"
  /\ UNCHANGED <<app, document, questions, parsing_errors, files, completed, locals>>

\* lines 28-30: os.remove raises PermissionError and the call returns
CleanSlateDenied ==
  /\ pc = "idle"
  /\ run < MaxRuns
  /\ disk.exists
  /\ run' = run + 1
  /\ atCall' = disk
  /\ log' = <<>>
  /\ status' = "permission_error"
  /\ UNCHANGED <<app, document, disk, questions, parsing_errors, files, pc, completed, locals>>

\* lines 32-34: init_db creates the missing tables and commits; conn is opened
InitDb ==
  /\ pc = "init_db"
  /\ disk' = IF disk.exists THEN disk ELSE EmptyDb
  /\ questions' = disk'.questions
  /\ parsing_errors' = disk'.parsing_errors
  /\ pc' = "open"
  /\ UNCHANGED <<app, document, files, status, run, completed, locals, log, atCall>>

\* a faulty variant of lines 57-59: the topic of the previous call is kept
OpenDocKeepsTopic ==
  /\ pc = "open"
  /\ buffer' = <<>>
  /\ opened' = <<[page |-> 1, line |-> 0, topic |-> current_topic]>>
  /\ page_num' = 1
  /\ i' = 1
  /\ ln' = 1
  /\ pc' = "lines"
  /\ UNCHANGED <<app, document, disk, questions, parsing_errors, files, status, run,
                 completed, current_topic, ip, log, atCall>>

\* lines 36-37 and 57-59: the document opens, the locals are initialised
OpenDoc ==
  /\ pc = "open"
  /\ current_topic' = "General"
  /\ buffer' = <<>>
  /\ opened' = <<[page |-> 1, line |-> 0, topic |-> "General"]>>
  /\ page_num' = 1
  /\ i' = 1
  /\ ln' = 1
  /\ pc' = "lines"
  /\ UNCHANGED <<app, document, disk, questions, parsing_errors, files, status, run,
                 completed, ip, log, atCall>>

\* lines 38-40: fitz.open raises and the call returns; conn is dropped
\* with nothing to commit
OpenDocFails ==
  /\ pc = "open"
  /\ pc' = "idle"
  /\ status' = "open_failed"
  /\ UNCHANGED <<app, document, disk, questions, parsing_errors, files, run, completed,
                 locals, log, atCall>>

\* a faulty variant of lines 163-164: the marker itself is cut off the clean part
SplitGluedAfterMarker(line, match) ==
  [dirty_part |-> SubSeq(line, 1, match.start),
   clean_part |-> SubSeq(line, match.end + 1, Len(line))]

\* lines 163-164: line[:match.start()] and line[match.start():]
SplitGlued(line, match) ==
  [dirty_part |-> SubSeq(line, 1, match.start),
   clean_part |-> SubSeq(line, match.start + 1, Len(line))]

\* a faulty variant of the statement: the write goes in front of the earlier
\* ones
ExecuteFirst(f) ==
  /\ questions' = IF f.stmt = "questions" /\ RowsOf(questions, f.q_num) = {}
                  THEN <<QuestionRow(f)>> \o questions ELSE questions
  /\ parsing_errors' = IF f.stmt = "parsing_errors"
                       THEN <<ErrorRow(f)>> \o parsing_errors
                       ELSE parsing_errors
  /\ log' = <<f>> \o log

\* the statement of a call of flush_buffer that left the locals f, executed
\* on the connection
Execute(f) ==
  /\ questions' = QuestionsAfter(questions, f)
  /\ parsing_errors' = ErrorsAfter(parsing_errors, f)
  /\ log' = Append(log, f)

\* the effect of flush_buffer(lines, topic, page_ref)
Flush(lines, topic, page_ref) == Execute(FlushBuffer(lines, topic, page_ref))

\* lines 159-172 for a line in which the marker was found: the buffer that
\* is flushed and the buffer that is opened
Repair(line, match, parts) ==
  IF match.start > 0
  THEN [closed |-> Append(buffer, parts.dirty_part), opened |-> <<parts.clean_part>>]
  ELSE [closed |-> buffer, opened |-> <<line>>]

\* a faulty variant of lines 152-153: a line without a marker resets the topic
TopicOfLineOnly(topic) ==
  IF topic.found THEN "Topic " \o topic.group1 ELSE "General"

\* lines 152-153: the topic after a line, topic being the search result
TopicAfter(topic) ==
  IF topic.found THEN "Topic " \o topic.group1 ELSE current_topic

\* lines 159-174, r being the buffers of Repair
CloseAndOpen(r, topic, page_ref) ==
  /\ Flush(r.closed, topic, page_ref)
  /\ buffer' = r.opened
  /\ opened' = Append(opened, [page |-> i, line |-> ln, topic |-> topic])

\* lines 150-174 for a stripped line and the two search results
HandleLine(line, topic, match) ==
  IF line = ""
  THEN UNCHANGED <<current_topic, buffer, opened, questions, parsing_errors, log>>
  ELSE /\ current_topic' = TopicAfter(topic)
       /\ IF match.found
          THEN CloseAndOpen(Repair(line, match, SplitGlued(line, match)),
                            TopicAfter(topic), i)
          ELSE /\ buffer' = Append(buffer, line)
               /\ UNCHANGED <<opened, questions, parsing_errors, log>>

\* the main loop on a line
StepLine(line) == HandleLine(line, TopicSearch(line), QStartSearch(line))

\* the position of the main loop after the line at (i, ln)
AdvanceLine ==
  IF ln < Len(PageLines(i)) THEN /\ i' = i
                                 /\ ln' = ln + 1
  ELSE /\ i' = i + 1
       /\ ln' = 1

\* a faulty variant of the main loop: flush_buffer raises on a buffer without a
\* marker, which ends the call
ProcessLineStops ==
  /\ pc = "lines"
  /\ i <= Len(doc)
  /\ IF /\ Strip(PageLines(i)[ln]) # ""
        /\ QStartSearch(Strip(PageLines(i)[ln])).found
        /\ ~QStartSearch(JoinLines(buffer)).found
     THEN /\ pc' = "idle"
          /\ status' = "crashed"
          /\ UNCHANGED <<app, document, disk, questions, parsing_errors, files, run,
                         completed, locals, log, atCall>>
     ELSE /\ page_num' = i
          /\ AdvanceLine
          /\ StepLine(Strip(PageLines(i)[ln]))
          /\ UNCHANGED <<app, document, disk, files, pc, status, run, completed, ip, atCall>>

\* lines 144-147: the two loops go to their next line; page_num is the
\* page of the line
NextLine ==
  /\ pc = "lines"
  /\ i <= Len(doc)
  /\ page_num' = i
  /\ AdvanceLine

\* lines 144-175: one line of one page
ProcessLine ==
  /\ NextLine
  /\ StepLine(Strip(PageLines(i)[ln]))
  /\ UNCHANGED <<app, document, disk, files, pc, status, run, completed, ip, atCall>>

\* lines 144 and 181: the main loop is over and the image loop starts
EndOfStream ==
  /\ pc = "lines"
  /\ i > Len(doc)
  /\ pc' = "images"
  /\ ip' = 1

\* a faulty variant of line 177: the buffer left at the end is dropped
FinalFlushSkipped ==
  /\ EndOfStream
  /\ UNCHANGED <<app, document, disk, questions, parsing_errors, files, status, run,
                 completed, current_topic, buffer, page_num, i, ln, log,
                 opened, atCall>>

\* line 177: the buffer left at the end of the stream is flushed
FinalFlush ==
  /\ EndOfStream
  /\ Flush(buffer, current_topic, page_num)
  /\ UNCHANGED <<app, document, disk, files, status, run, completed, current_topic,
                 buffer, page_num, i, ln, opened, atCall>>

\* save_image: the path of the file written for q_num
ImagePath(q_num) == "assets/images/q" \o q_num \o ".png"

\* a faulty variant of the image pass: without the try, a failing image ends the call
ImagePageUnguarded ==
  /\ pc = "images"
  /\ ip <= Len(doc)
  /\ LET page == PagePool[doc[ip]]
         q_match == QStartSearch(page.clip)
     IN  IF Contains(Lower(page.text), "q") /\ q_match.found /\ page.image = "raises"
         THEN /\ pc' = "idle"
              /\ status' = "crashed"
              /\ UNCHANGED <<ip, files, questions>>
         ELSE /\ ip' = ip + 1
              /\ UNCHANGED <<pc, status>>
              /\ IF Contains(Lower(page.text), "q") /\ q_match.found
                    /\ page.image = "ok"
                 THEN /\ files' = files \cup {ImagePath(q_match.group1)}
                      /\ questions' = UpdateImagePath(questions,
                                        ImagePath(q_match.group1), q_match.group1)
                 ELSE UNCHANGED <<files, questions>>
  /\ UNCHANGED <<app, document, disk, parsing_errors, run, completed, current_topic,
                 buffer, page_num, i, ln, log, opened, atCall>>

\* line 181: the image loop goes to its next page
NextPage ==
  /\ pc = "images"
  /\ ip <= Len(doc)
  /\ ip' = ip + 1

\* lines 181-199: one page of the image pass
ImagePage ==
  /\ NextPage
  /\ LET page == PagePool[doc[ip]]
         text_instances == Contains(Lower(page.text), "q")
         q_match == QStartSearch(page.clip)
     IN  IF text_instances /\ q_match.found /\ page.image = "ok"
         THEN /\ files' = files \cup {ImagePath(q_match.group1)}
              /\ questions' = UpdateImagePath(questions,
                                ImagePath(q_match.group1), q_match.group1)
         ELSE UNCHANGED <<files, questions>>
  /\ UNCHANGED <<app, document, disk, parsing_errors, pc, status, run, completed,
                 current_topic, buffer, page_num, i, ln, log, opened, atCall>>

\* lines 201-203: the commit that makes the writes of the call durable
Commit ==
  /\ pc = "images"
  /\ ip > Len(doc)
  /\ disk' = [exists |-> TRUE, questions |-> questions,
              parsing_errors |-> parsing_errors]
  /\ pc' = "idle"
  /\ status' = "complete"
  /\ completed' = completed + 1
  /\ UNCHANGED <<app, document, questions, parsing_errors, files, run, locals, log, atCall>>

Next ==
  \/ CleanSlate
  \/ CleanSlateDenied
  \/ InitDb
  \/ OpenDoc
  \/ OpenDocFails
  \/ ProcessLine
  \/ FinalFlush
  \/ ImagePage
  \/ Commit

Spec == Init /\ [][Next]_vars

\* The call is one sequential thread that is not stopped from outside: a
\* loop that can go to its next iteration does, and so do the statements
\* between the loops.  The conditions are on the control part of the steps.
FairSpec ==
  /\ Spec
  /\ WF_vars(InitDb)
  /\ WF_<<i, ln>>(NextLine)
  /\ WF_pc(EndOfStream)
  /\ WF_ip(NextPage)
  /\ WF_vars(Commit)

(***************************************************************************)
(* app.py: the exam simulator, the study mode and the bulk editor          *)
(*                                                                         *)
(* Streamlit runs the script from its top on every event of the browser    *)
(* and st.rerun() ends the run and starts another one without an event.    *)
(* An action below is the run an event starts, with the run its rerun      *)
(* starts.  The sidebar menu only selects the render function that runs.   *)
(* The app reads the table questions as committed (disk); the id of a row  *)
(* is its place in the table.                                              *)
(***************************************************************************)

\* the questions of the bank, at most
MaxQuestions == 2

\* the rows of the table the study mode and the bulk editor read, at most
MaxRows == 101

\* app.py line 160: db.get_exam_questions(100)
exam_limit == 100

\* the segments whose rows make the question bank
BankSegments ==
  << <<"Question #1", "Stem text", "A. Foo", "B. Bar", "Answer: A">>,
     <<"Question #2", "Other stem", "A. Yes", "B. No", "Answer: B. No">>,
     <<"Question #3", "Refer to the exhibit.", "Answer: C">> >>

\* the row extract_content stores for the k-th of these segments
BankRow(k) == QuestionRow(FlushBuffer(BankSegments[k], "General", 1))

\* the tables the app finds: the first rows of the bank
Banks == {[k \in 1..n |-> BankRow(k)] : n \in 0..MaxQuestions}

\* a row of the table the editor pages over
EditorRow(k) ==
  [question_number |-> ToString(k), question_text |-> "Stem text",
   options |-> "[\"A. Foo\", \"B. Bar\"]", image_path |-> NULL,
   correct_answer |-> "A",
   topic |-> "General", explanation |-> NULL, question_type |-> "standard",
   flagged |-> 0]

\* a table of n rows: the rows of the bank, then rows like the one above
EditorTable(n) ==
  [k \in 1..n |-> IF k <= Len(BankSegments) THEN BankRow(k) ELSE EditorRow(k)]

\* the sizes of that table: around the multiples of the page size
RowCounts == {n \in 0..MaxRows : n % page_size \in {0, 1, page_size - 1}}

\* the part of the state extract_content works on
setup == <<document, questions, parsing_errors, files, pc, status, run, completed,
           locals, log, atCall>>

\* extract_content is not running and has left the given table
SetupDone(table) ==
  /\ doc = <<>>
  /\ page_lines = <<>>
  /\ disk = [exists |-> TRUE, questions |-> table, parsing_errors |-> <<>>]
  /\ questions = <<>>
  /\ parsing_errors = <<>>
  /\ files = {}
  /\ pc = "idle"
  /\ status = "none"
  /\ run = 0
  /\ completed = 0
  /\ current_topic = "General"
  /\ buffer = <<>>
  /\ page_num = 1
  /\ i = 1
  /\ ln = 1
  /\ ip = 1
  /\ log = <<>>
  /\ opened = <<>>
  /\ atCall = NoDb
  /\ options = [id \in 1..Len(disk.questions) |->
                  JsonLoads(disk.questions[id].options)]

\* the options of a row as a set
Choices(id) == {options[id][k] : k \in 1..Len(options[id])}

\* lines 121-124 of render_study_mode: the choice is marked correct
StudyGrade(correct_answer, choice) ==
  SplitFirst(choice, ".") = Strip(SplitFirst(SplitFirst(correct_answer, ","), "."))

\* lines 327-329, 337 and 385-388 of render_exam_results: the answer is marked
\* correct; user_ans_full is "" for a question without an answer
ExamGrade(correct_answer, user_ans_full) ==
  (IF user_ans_full # "" THEN SplitFirst(user_ans_full, ".") ELSE "Unanswered")
    = SplitFirst(correct_answer, ",")

\* exam_answers.get(id, "")
AnswerGiven(id) == IF id \in DOMAIN exam_answers THEN exam_answers[id] ELSE ""

\* lines 322-340: the score of the results view
Score ==
  Cardinality({k \in 1..Len(exam_questions) :
                 ExamGrade(disk.questions[exam_questions[k]].correct_answer,
                           AnswerGiven(exam_questions[k]))})

\* database.py lines 211-216: ORDER BY RANDOM() LIMIT 100, any order of any
\* rows of the table, as many as the table and the limit allow
Draws ==
  LET n == Len(disk.questions)
      m == IF n < exam_limit THEN n ELSE exam_limit
  IN  {order \in [1..m -> 1..n] :
         \A a, b \in 1..m : a # b => order[a] # order[b]}

\* the row the question view shows
CurrentId == exam_questions[exam_current_idx + 1]

\* the options the radio of the question view offers
RadioOptions ==
  IF exam_active /\ ~exam_submitted THEN Choices(CurrentId) ELSE {}

\* an event of the exam simulator: nothing else is touched
ExamEvent(name) ==
  /\ event' = name
  /\ UNCHANGED <<setup, disk, options, study, editor>>

\* lines 151-174: the start screen and its button
ExamStart(order) ==
  /\ ~exam_active
  /\ order \in Draws
  /\ ExamEvent("start")
  /\ IF order = <<>>
     THEN UNCHANGED exam
     ELSE /\ exam_questions' = order
          /\ exam_answers' = <<>>
          /\ exam_flags' = {}
          /\ exam_active' = TRUE
          /\ exam_submitted' = FALSE
          /\ expired' = FALSE
          /\ exam_current_idx' = 0
          /\ exam_score' = NULL

\* the clock passes the limit of 120 minutes of a running exam
ExamTick ==
  /\ exam_active
  /\ ~exam_submitted
  /\ ~expired
  /\ expired' = TRUE
  /\ UNCHANGED <<exam_active, exam_submitted, exam_questions, exam_answers,
                 exam_flags, exam_current_idx, exam_score>>
  /\ UNCHANGED <<setup, disk, options, study, editor, event>>

\* line 183: remaining <= 0 and the exam is not submitted
TimeIsUp == expired /\ ~exam_submitted

\* lines 183-186 and the rerun (248-250): the exam is submitted and the results view
\* is shown; the event of the run is dropped
AutoSubmit ==
  /\ exam_submitted' = TRUE
  /\ exam_score' = Score
  /\ UNCHANGED <<exam_active, exam_questions, exam_answers, exam_flags,
                 exam_current_idx, expired>>

\* a run without an event of its own (the menu comes back to the exam) that
\* finds the time elapsed
ExamRerun ==
  /\ exam_active
  /\ TimeIsUp
  /\ ExamEvent("render")
  /\ AutoSubmit

\* a faulty variant of the question view: the selection is saved before the
\* timer is looked at
ExamSelectLate(sel) ==
  /\ sel \in RadioOptions
  /\ ExamEvent("select")
  /\ exam_answers' = (CurrentId :> sel) @@ exam_answers
  /\ exam_submitted' = expired
  /\ exam_score' = IF expired THEN Score ELSE exam_score
  /\ UNCHANGED <<exam_active, exam_questions, exam_flags, exam_current_idx,
                 expired>>

\* lines 283-300: an option of the radio of the question view is picked
ExamSelect(sel) ==
  /\ sel \in RadioOptions
  /\ ExamEvent("select")
  /\ IF TimeIsUp THEN AutoSubmit
     ELSE /\ exam_answers' = IF sel # "" THEN (CurrentId :> sel) @@ exam_answers
                             ELSE exam_answers
          /\ UNCHANGED <<exam_active, exam_submitted, exam_questions,
                         exam_flags, exam_current_idx, expired, exam_score>>

\* lines 205-232: a button of the navigator grid, shown in both views
ExamNav(j) ==
  /\ exam_active
  /\ j \in 0..(Len(exam_questions) - 1)
  /\ ExamEvent("nav")
  /\ IF TimeIsUp THEN AutoSubmit
     ELSE /\ exam_current_idx' = j
          /\ UNCHANGED <<exam_active, exam_submitted, exam_questions,
                         exam_answers, exam_flags, expired, exam_score>>

\* lines 262-269: the flag button of the question view
ExamFlag ==
  /\ exam_active
  /\ ~exam_submitted
  /\ ExamEvent("flag")
  /\ IF TimeIsUp THEN AutoSubmit
     ELSE /\ exam_flags' = IF CurrentId \in exam_flags
                           THEN exam_flags \ {CurrentId}
                           ELSE exam_flags \cup {CurrentId}
          /\ UNCHANGED <<exam_active, exam_submitted, exam_questions,
                         exam_answers, exam_current_idx, expired, exam_score>>

\* lines 309-311: Back, disabled on the first question
ExamBack ==
  /\ exam_active
  /\ ~exam_submitted
  /\ exam_current_idx # 0
  /\ ExamEvent("back")
  /\ IF TimeIsUp THEN AutoSubmit
     ELSE /\ exam_current_idx' = exam_current_idx - 1
          /\ UNCHANGED <<exam_active, exam_submitted, exam_questions,
                         exam_answers, exam_flags, expired, exam_score>>

\* a faulty variant of lines 313-315: Next is never disabled
ExamForwardAlways ==
  /\ exam_active
  /\ ~exam_submitted
  /\ ExamEvent("next")
  /\ IF TimeIsUp THEN AutoSubmit
     ELSE /\ exam_current_idx' = exam_current_idx + 1
          /\ UNCHANGED <<exam_active, exam_submitted, exam_questions,
                         exam_answers, exam_flags, expired, exam_score>>

\* lines 313-315: Next, disabled on the last question
ExamForward ==
  /\ exam_active
  /\ ~exam_submitted
  /\ exam_current_idx # Len(exam_questions) - 1
  /\ ExamEvent("next")
  /\ IF TimeIsUp THEN AutoSubmit
     ELSE /\ exam_current_idx' = exam_current_idx + 1
          /\ UNCHANGED <<exam_active, exam_submitted, exam_questions,
                         exam_answers, exam_flags, expired, exam_score>>

\* lines 235-238: Submit Exam, and the results view of its rerun
ExamSubmit ==
  /\ exam_active
  /\ ~exam_submitted
  /\ ExamEvent("submit")
  /\ AutoSubmit

\* lines 239-243: Exit Exam Mode deletes exam_active and exam_submitted;
\* the other keys stay until the next start
ExamExit ==
  /\ exam_active
  /\ exam_submitted
  /\ ExamEvent("exit")
  /\ exam_active' = FALSE
  /\ exam_submitted' = FALSE
  /\ exam_score' = NULL
  /\ UNCHANGED <<exam_questions, exam_answers, exam_flags, exam_current_idx,
                 expired>>

\* lines 84-86: the question the study mode shows, by id (topic "All")
StudyId ==
  IF study_index >= Len(disk.questions) THEN 1 ELSE study_index + 1

\* what the form of the study mode can be submitted with: an option of the
\* radio or no selection
StudyChoices ==
  IF disk.questions = <<>> THEN {} ELSE Choices(StudyId) \cup {NULL}

\* an event of the study mode
StudyEvent(name) ==
  /\ disk.questions # <<>>
  /\ event' = name
  /\ UNCHANGED <<setup, disk, options, exam, editor>>

\* lines 113-128: Check Answer, with the radio on the choice or on nothing
StudyCheck(choice) ==
  /\ choice \in StudyChoices
  /\ StudyEvent("check")
  /\ study_choice' = choice
  /\ study_verdict' =
       IF choice = NULL \/ choice = "" THEN "Select an answer first."
       ELSE IF StudyGrade(disk.questions[StudyId].correct_answer, choice)
         THEN "Correct" ELSE "Incorrect"
  /\ UNCHANGED study_index

\* lines 140-142: Previous; the verdict is not shown any more
StudyPrevious ==
  /\ StudyEvent("previous")
  /\ study_index' = IF StudyId - 2 > 0 THEN StudyId - 2 ELSE 0
  /\ study_choice' = NULL
  /\ study_verdict' = NULL

\* lines 143-145: Next
StudyForward ==
  /\ StudyEvent("next question")
  /\ study_index' = IF Len(disk.questions) - 1 < StudyId
                    THEN Len(disk.questions) - 1 ELSE StudyId
  /\ study_choice' = NULL
  /\ study_verdict' = NULL

\* line 431: total_pages
TotalPages(rows) == (rows \div page_size) + 1

\* lines 435-438 and 423-428: the slider is moved to another page and the
\* editor shows it
EditorSlide(new_page) ==
  /\ new_page \in 1..TotalPages(total_rows)
  /\ new_page - 1 # editor_page
  /\ editor_page' = new_page - 1
  /\ total_rows' =
       GetQuestionsPaginated(disk.questions, page_size, (new_page - 1) * page_size).total
  /\ editor_rows' =
       Len(GetQuestionsPaginated(disk.questions, page_size, (new_page - 1) * page_size).df)
  /\ event' = "slide"
  /\ UNCHANGED <<setup, disk, options, exam, study>>

\* a session of the exam simulator over a bank
ExamInit ==
  /\ \E table \in Banks : SetupDone(table)
  /\ NoSession
  /\ EditorOpened(<<>>)

ExamNext ==
  \/ \E order \in Draws : ExamStart(order)
  \/ ExamTick
  \/ ExamRerun
  \/ \E sel \in RadioOptions : ExamSelect(sel)
  \/ \E j \in 0..(Len(exam_questions) - 1) : ExamNav(j)
  \/ ExamFlag
  \/ ExamBack
  \/ ExamForward
  \/ ExamSubmit
  \/ ExamExit

ExamSpec == ExamInit /\ [][ExamNext]_vars

\* a session of the study mode and of the bulk editor over a table
StudyInit ==
  /\ \E n \in RowCounts :
       /\ SetupDone(EditorTable(n))
       /\ EditorOpened(disk.questions)
  /\ NoSession

StudyNext ==
  \/ \E choice \in StudyChoices : StudyCheck(choice)
  \/ StudyPrevious
  \/ StudyForward
  \/ \E new_page \in 1..TotalPages(total_rows) : EditorSlide(new_page)

StudySpec == StudyInit /\ [][StudyNext]_vars

(***************************************************************************)
(* Properties                                                              *)
(***************************************************************************)

\* the call ended with conn.commit()
Complete == pc = "idle" /\ status = "complete"

\* the connection holds the writes of the flushes of log and of nothing else
Writing == pc \in {"lines", "images"} \/ Complete

\* the block of a flushed buffer holds a question-start marker
HasMarker(f) == f.lines # <<>> /\ QStartSearch(JoinLines(f.lines)).found

\* the flushes of log that issued a statement on the given table
Issued(table) == {k \in 1..Len(log) : log[k].stmt = table}

\* a row of questions without its image_path
SansImage(row) == [row EXCEPT !.image_path = NULL]

\* C1: if opening the document fails, the call ends with every question row
\* and every quarantine row the sink held before the call still there and
\* none added.
C1_SinkUntouchedOnOpenFailure ==
  (pc = "idle" /\ status = "open_failed") =>
     /\ disk.questions = atCall.questions
     /\ disk.parsing_errors = atCall.parsing_errors

\* C2: first write wins.  While a call writes, and after its commit, the row
\* stored for a question_number is, image_path apart, the record of the first
\* flush of the call that issued a question write with that number; there is
\* one such row, whatever later flushes wrote with the same number.
C2_FirstWriteWins ==
  Writing =>
    \A k \in Issued("questions") :
      LET first == Least({j \in Issued("questions") : log[j].q_num = log[k].q_num})
          rows == RowsOf(questions, log[k].q_num)
      IN  /\ Cardinality(rows) = 1
          /\ \A r \in rows : SansImage(questions[r]) = QuestionRow(log[first])

\* C2 witness: a committed call in which two flushes issued question writes
\* with the same number and different content.
C2_Witness ==
  /\ Complete
  /\ \E j, k \in Issued("questions") :
       /\ j < k
       /\ log[j].q_num = log[k].q_num
       /\ QuestionRow(log[j]) # QuestionRow(log[k])

\* C3: a flush of a block that holds a marker issues exactly one write: the
\* quarantine row, with the fixed reason, if and only if the options are
\* empty, the answer is "Unknown" and the type is standard, and leaves the
\* questions alone; otherwise one insert-or-ignore of the question and no
\* quarantine row.
C3_Routing ==
  [][ Len(log') = Len(log) + 1 =>
        LET f == log'[Len(log')]
            failed == /\ f.options_list = <<>>
                      /\ f.ans_raw = "Unknown"
                      /\ f.q_type = "standard"
        IN  HasMarker(f) =>
              IF failed
              THEN /\ f.stmt = "parsing_errors"
                   /\ Len(parsing_errors') = Len(parsing_errors) + 1
                   /\ parsing_errors'[Len(parsing_errors')].error_reason
                        = "Parsing Failed (No Options/Answer)"
                   /\ questions' = questions
              ELSE /\ f.stmt = "questions"
                   /\ parsing_errors' = parsing_errors
                   /\ questions' \in {questions, Append(questions, QuestionRow(f))}
    ]_vars

\* C3 witness: a call that flushed a block routed to quarantine and a block
\* routed to the questions.
C3_Witness ==
  /\ Complete
  /\ Issued("parsing_errors") # {}
  /\ Issued("questions") # {}
  /\ Len(disk.parsing_errors) = Cardinality(Issued("parsing_errors"))

\* C4: glued-text repair loses nothing.  When the first marker of a line is
\* at offset k > 0, the buffer that is flushed is the old buffer with the
\* prefix line[0:k] appended, the new buffer holds the suffix line[k:] alone,
\* and prefix followed by suffix is the line.
C4_GluedRepairLossless ==
  [][ (pc = "lines" /\ i <= Len(doc)) =>
        LET line == Strip(PageLines(i)[ln])
            match == QStartSearch(line)
        IN  (line # "" /\ match.found /\ match.start > 0) =>
              /\ Len(log') = Len(log) + 1
              /\ Len(buffer') = 1
              /\ LET closed == log'[Len(log')].lines
                     prefix == closed[Len(closed)]
                     suffix == buffer'[1]
                 IN  /\ closed = Append(buffer, prefix)
                     /\ Len(prefix) = match.start
                     /\ QStartMatch(suffix)
                     /\ prefix \o suffix = line
    ]_vars

\* C4 witness: the glued line was split, its prefix closing the flushed
\* buffer and its suffix opening the new one.
C4_Witness ==
  /\ pc = "lines"
  /\ Len(log) > 0
  /\ Len(log[Len(log)].lines) > 1
  /\ log[Len(log)].lines[Len(log[Len(log)].lines)] = "end of prior stem"
  /\ buffer = <<"Question #7 New stem A. X B. Y Answer: B">>

\* C5: the segment opened by the suffix of the glued line, which carries the
\* marker, the stem, the options and the answer on one line, parses to number
\* "7", options ["A. X", "B. Y"] and an answer that starts with "B".
C5_InlineOptionsExtracted ==
  \A k \in 1..Len(log) :
    (log[k].lines # <<>>
       /\ log[k].lines[1] = "Question #7 New stem A. X B. Y Answer: B") =>
      /\ log[k].q_num = "7"
      /\ log[k].options_list = <<"A. X", "B. Y">>
      /\ StartsAt(log[k].ans_raw, 1, "B")

OnlyImagePathsChange ==
  /\ Len(questions') = Len(questions)
  /\ \A k \in 1..Len(questions) : SansImage(questions'[k]) = SansImage(questions[k])

\* C8: the image pass isolates failures.  Every page of the pass, whatever
\* its anchor and image, leaves the pass at the next page with the rows
\* unchanged but for image paths; the pass ends only after the last page, with
\* the commit of all rows; and a pass that started reaches that commit.
C8_ImagePassIsolated ==
  /\ [][ pc = "images" =>
           IF ip <= Len(doc)
           THEN /\ pc' = "images"
                /\ ip' = ip + 1
                /\ OnlyImagePathsChange
                /\ parsing_errors' = parsing_errors
           ELSE /\ Complete'
                /\ disk'.questions = questions
                /\ disk'.parsing_errors = parsing_errors
       ]_vars
  /\ (pc = "images") ~> Complete

\* C8 witness: a committed call whose first page had no usable image (the
\* extraction raised, there was no image, or no anchor) and whose later page
\* got its image associated.
C8_Witness ==
  /\ Complete
  /\ Len(doc) = 2
  /\ PagePool[doc[1]].image = "raises"
  /\ \E k \in 1..Len(disk.questions) : disk.questions[k].image_path # NULL
  /\ Len(disk.questions) > 2

\* C9: once the document is open the segmentation pass consumes every line
\* and ends.  A line step always leads to the next line of the stream,
\* whatever the flushed buffer held, the pass is left only after the last
\* line of the last page, and a pass that started reaches the image pass.
C9_SegmentationTerminates ==
  /\ [][ pc = "lines" =>
           IF i <= Len(doc)
           THEN /\ pc' = "lines"
                /\ IF ln < Len(PageLines(i)) THEN i' = i /\ ln' = ln + 1
                   ELSE i' = i + 1 /\ ln' = 1
           ELSE pc' = "images"
       ]_vars
  /\ (pc = "lines") ~> (pc = "images" /\ i > Len(doc))

\* C9 witness: the pass ended after flushing a buffer without a marker and a
\* segment without options and answer.
C9_Witness ==
  /\ pc = "images"
  /\ \E k \in 1..Len(log) : log[k].lines # <<>> /\ ~HasMarker(log[k])
  /\ \E k \in 1..Len(log) : HasMarker(log[k]) /\ log[k].stmt = "parsing_errors"

\* C10: a flush of a buffer that is empty or whose block holds no marker
\* writes nothing: both tables stay as they are.
C10_NoMarkerNoWrite ==
  [][ Len(log') = Len(log) + 1 =>
        (~HasMarker(log'[Len(log')]) =>
           /\ questions' = questions
           /\ parsing_errors' = parsing_errors)
    ]_vars

\* C10 witness: a non-empty buffer without a marker was flushed, and a
\* question was written after it.
C10_Witness ==
  /\ Complete
  /\ \E k \in 1..Len(log) : log[k].lines # <<>> /\ ~HasMarker(log[k])
  /\ Len(disk.questions) > 0

\* the segmentation pass has just ended: log holds all its flushes
Segmented == pc = "images" /\ ip = 1

\* the flushes of log that got past the marker test and were parsed
Parsed == {k \in 1..Len(log) : HasMarker(log[k])}

\* the trimmed lines of the question part of a parsed flush
QuestionPart(f) ==
  [k \in 1..Len(SplitLines(f.q_text_raw)) |-> Strip(SplitLines(f.q_text_raw)[k])]

\* a line that reads as an option, and the entry it is normalised to
IsOptionLine(line) == OptionMatch(line).found
Normalised(line) == OptionMatch(line).letter \o ". " \o OptionMatch(line).content

\* the option entries of the option lines of the question part, in order
OptionEntries(f) ==
  LET lines == SelectSeq(QuestionPart(f), IsOptionLine)
  IN  [k \in 1..Len(lines) |-> Normalised(lines[k])]

\* the other lines of the question part, the marker line apart, joined
BodyText(f) ==
  Strip(JoinLines(SelectSeq(QuestionPart(f),
                            LAMBDA l : ~IsOptionLine(l) /\ ~QStartMatch(l))))

\* the segment of the round-trip example
Example42 ==
  FlushBuffer(<<"Question #42", "Stem text", "A. Foo", "B. Bar", "Answer: A">>,
              "General", 1)

\* C11 as claimed: for every parsed segment without the visual-options
\* marker, options is exactly the sequence of the normalised option lines of
\* the question part and the text is the remaining lines but the marker line.
C11_OptionsAreOptionLines ==
  Segmented =>
    \A k \in Parsed :
      ~ImageOptionsSearch(log[k].q_text_raw) =>
        /\ log[k].options_list = OptionEntries(log[k])
        /\ log[k].final_q_text = BodyText(log[k])

\* C11 as amended: without the visual-options marker, the text is the
\* remaining lines of the question part (option lines and marker line
\* excluded), joined and trimmed; options is the sequence of the normalised
\* option lines when there is one; when there is none, options is the four
\* image placeholders if the text mentions "exhibit" or "refer to", else the
\* interactive placeholder if the type is not standard, else empty.  The
\* round-trip example gives "42", ["A. Foo", "B. Bar"] and "Stem text" (it
\* does not depend on the state and is evaluated before the first call).
C11_OptionsAndText ==
  /\ Segmented =>
       \A k \in Parsed :
         ~ImageOptionsSearch(log[k].q_text_raw) =>
           /\ log[k].final_q_text = BodyText(log[k])
           /\ log[k].options_list =
                IF OptionEntries(log[k]) # <<>> THEN OptionEntries(log[k])
                ELSE IF Contains(Lower(BodyText(log[k])), "exhibit")
                        \/ Contains(Lower(BodyText(log[k])), "refer to")
                  THEN <<"A. (Refer to Image)", "B. (Refer to Image)",
                         "C. (Refer to Image)", "D. (Refer to Image)">>
                ELSE IF log[k].q_type # "standard"
                  THEN <<"(Interactive Question - Refer to Image/Explanation)">>
                ELSE <<>>
  /\ run = 0 =>
       /\ Example42.q_num = "42"
       /\ Example42.options_list = <<"A. Foo", "B. Bar">>
       /\ Example42.final_q_text = "Stem text"

\* C11 witness: a segmentation pass that parsed a segment with two option
\* lines and one body line, and a segment without option lines that got
\* placeholders.
C11_Witness ==
  /\ Segmented
  /\ \E k \in Parsed : /\ log[k].options_list = <<"A. Foo", "B. Bar">>
                       /\ log[k].final_q_text = "Stem text"
  /\ \E k \in Parsed : /\ ~ImageOptionsSearch(log[k].q_text_raw)
                       /\ OptionEntries(log[k]) = <<>>
                       /\ log[k].options_list # <<>>

\* C12: when the visual-options marker "A. B. C. D." is in the question
\* part of a parsed segment, options is exactly the four image placeholders:
\* no line of the segment adds an option entry, option lines or not.
C12_VisualOptions ==
  Segmented =>
    \A k \in Parsed :
      ImageOptionsSearch(log[k].q_text_raw) =>
        log[k].options_list =
          <<"A. (Refer to Image)", "B. (Refer to Image)",
            "C. (Refer to Image)", "D. (Refer to Image)">>

\* C12 witness: a parsed segment with the visual-options marker and a line
\* that reads as an option; the line is in the text, not in the options.
C12_Witness ==
  /\ Segmented
  /\ \E k \in Parsed :
       /\ ImageOptionsSearch(log[k].q_text_raw)
       /\ \E j \in 1..Len(log[k].lines) :
            /\ IsOptionLine(log[k].lines[j])
            /\ ~ImageOptionsSearch(log[k].lines[j])
            /\ Contains(log[k].final_q_text, log[k].lines[j])
       /\ Len(log[k].options_list) = 4

\* C13: correct_answer is "Unknown" and the whole block is the question
\* part when the block has no answer marker; otherwise correct_answer is the
\* trimmed first line of the text after the first answer marker, and the
\* question part, the only text scanned, is the text before that marker.
C13_AnswerIsFirstLine ==
  Segmented =>
    \A k \in Parsed :
      LET s == log[k].text_block
          p == AnsFind(s, 1)
      IN  IF p > Len(s)
          THEN /\ log[k].ans_raw = "Unknown"
               /\ log[k].q_text_raw = s
          ELSE /\ log[k].ans_raw = Strip(SplitLines(From(s, AnsAt(s, p)))[1])
               /\ log[k].q_text_raw = SubSeq(s, 1, p - 1)

\* C14: a page of the image pass changes nothing in the sink but the
\* image_path of the rows of questions that carry the number read at the
\* page's anchor: no row is created or deleted, no other column and no
\* quarantine row changes, and when no row carries the number (or no number
\* is read) the sink is left as it is.
C14_ImagePassFrame ==
  [][ (pc = "images" /\ ip <= Len(doc)) =>
        LET q_match == QStartSearch(PagePool[doc[ip]].clip)
        IN  /\ parsing_errors' = parsing_errors
            /\ disk' = disk
            /\ Len(questions') = Len(questions)
            /\ \A k \in 1..Len(questions) :
                 IF q_match.found /\ questions[k].question_number = q_match.group1
                 THEN SansImage(questions'[k]) = SansImage(questions[k])
                 ELSE questions'[k] = questions[k]
            /\ (~q_match.found \/ RowsOf(questions, q_match.group1) = {})
                 => questions' = questions
    ]_vars

\* C14 witness: the image of a page whose question was quarantined has been
\* saved, no row carries its number, and another row got its image.
C14_Witness ==
  /\ pc = "images"
  /\ ImagePath("5") \in files
  /\ RowsOf(questions, "5") = {}
  /\ parsing_errors # <<>>
  /\ \E k \in 1..Len(questions) : questions[k].image_path # NULL

\* the place in the stream, <<page, line>>, comes before
Before(a, b) == a.page < b.page \/ (a.page = b.page /\ a.line < b.line)

\* the first flush of the call that issued a question write with number n
FirstIssue(n) == Least({k \in Issued("questions") : log[k].q_num = n})

\* C15: sink writes follow document order.  The k-th flush of a call is of
\* the k-th buffer started, buffers are started at increasing places of the
\* stream (page, then line), a buffer started by a marker begins with the
\* line (or its suffix) at its place, and the rows of each table are in the
\* order of the flushes that wrote them.
C15_WritesInDocumentOrder ==
  Writing =>
    /\ Len(log) <= Len(opened)
    /\ \A j, k \in 1..Len(opened) : j < k => Before(opened[j], opened[k])
    /\ \A k \in 2..Len(log) :
         LET line == Strip(PageLines(opened[k].page)[opened[k].line])
             first == log[k].lines[1]
         IN  /\ log[k].lines # <<>>
             /\ QStartMatch(first)
             /\ From(line, Len(line) - Len(first) + 1) = first
    /\ \A a, b \in 1..Len(questions) :
         a < b => FirstIssue(questions[a].question_number)
                    < FirstIssue(questions[b].question_number)
    /\ Len(parsing_errors) = Cardinality(Issued("parsing_errors"))
    /\ \A k \in Issued("parsing_errors") :
         parsing_errors[Cardinality({j \in Issued("parsing_errors") : j <= k})].raw_text
           = log[k].text_block

\* C15 witness: a committed call over two pages that wrote a question of the
\* first page and then a quarantine row for a segment of the second.
C15_Witness ==
  /\ Complete
  /\ Len(log) >= 3
  /\ \E j, k \in 1..Len(log) :
       /\ j < k
       /\ log[j].stmt = "questions"
       /\ log[k].stmt = "parsing_errors"
       /\ opened[j].page < opened[k].page

\* the places <<page, line>> of the stream whose line holds a topic marker
TopicPlaces ==
  {pl \in UNION {{[page |-> p, line |-> l] : l \in 1..Len(PageLines(p))}
                   : p \in 1..Len(doc)} :
     TopicSearch(Strip(PageLines(pl.page)[pl.line])).found}

\* the topic markers seen after place a, up to and including place b
TopicsBetween(a, b) == {pl \in TopicPlaces : Before(a, pl) /\ ~Before(b, pl)}

\* the topic of the last marker seen up to and including place a
TopicSeenAt(a) ==
  LET seen == {pl \in TopicPlaces : ~Before(a, pl)}
      last == CHOOSE pl \in seen : \A o \in seen : ~Before(pl, o)
  IN  IF seen = {} THEN "General"
      ELSE "Topic " \o TopicSearch(Strip(PageLines(last.page)[last.line])).group1

\* the place of the line that closed the k-th buffer; the end of the stream
\* for the last
ClosedAt(k) ==
  IF k < Len(opened) THEN opened[k + 1] ELSE [page |-> Len(doc) + 1, line |-> 0]

\* C16: the current topic persists across segments.  A segment that is
\* closed with no topic marker seen since it was opened is flushed with the
\* topic of the last marker seen before it was opened, however many segments
\* were flushed since that marker, and with "General" if there was none.
C16_TopicPersists ==
  Segmented =>
    \A k \in 1..Len(log) :
      TopicsBetween(opened[k], ClosedAt(k)) = {} =>
        log[k].topic = TopicSeenAt(opened[k])

\* C16 witness: three segments in a row flushed with the topic of a marker
\* seen before the first of them was opened.
C16_Witness ==
  /\ Segmented
  /\ \E k \in Parsed :
       /\ k + 2 \in Parsed
       /\ TopicsBetween(opened[k], ClosedAt(k + 2)) = {}
       /\ TopicSeenAt(opened[k]) = "Topic 1"
       /\ \A j \in {k, k + 1, k + 2} : log[j].topic = "Topic 1"

\* C17: a quarantine row keeps the segment verbatim: its raw_text is the
\* block of the lines of the flushed buffer, joined, before any stripping of
\* boilerplate or of a trailing "Topic <n>" and before any trimming.
C17_QuarantineVerbatim ==
  Segmented =>
    \A k \in Issued("parsing_errors") :
      parsing_errors[Cardinality({j \in Issued("parsing_errors") : j <= k})].raw_text
        = JoinLines(log[k].lines)

\* what a line of the stream contributes to the buffers: nothing when it is
\* blank, its prefix and its suffix when a marker is found inside it, else
\* the trimmed line
Contribution(raw) ==
  LET line == Strip(raw)
      at == QStartSearch(line)
  IN  IF line = "" THEN <<>>
      ELSE IF at.found /\ at.start > 0
        THEN <<SubSeq(line, 1, at.start), SubSeq(line, at.start + 1, Len(line))>>
      ELSE <<line>>

RECURSIVE StreamFrom(_, _)
\* the contributions of the lines of the stream from line l of page p on
StreamFrom(p, l) ==
  IF p > Len(doc) THEN <<>>
  ELSE IF l > Len(PageLines(p)) THEN StreamFrom(p + 1, 1)
  ELSE Contribution(PageLines(p)[l]) \o StreamFrom(p, l + 1)

RECURSIVE FlushedUpTo(_)
\* the lines of the first k flushed buffers, in flush order
FlushedUpTo(k) == IF k = 0 THEN <<>> ELSE FlushedUpTo(k - 1) \o log[k].lines

\* C18: every line reaches exactly one flushed buffer.  After the final
\* flush the lines of the flushed buffers, in flush order, are the non-blank
\* (trimmed) lines of the stream in order, a glued line giving its prefix and
\* then its suffix; and the buffer open at the end of the stream was flushed.
C18_EveryLineFlushed ==
  (pc = "images" \/ Complete) =>
    /\ FlushedUpTo(Len(log)) = StreamFrom(1, 1)
    /\ Len(log) = Len(opened)
    /\ log[Len(log)].lines = buffer

\* C18 witness: the pass has ended on a stream with a blank line, a glued
\* line and a last buffer of several lines.
C18_Witness ==
  /\ Segmented
  /\ Len(buffer) > 1
  /\ Len(log) > 3
  /\ \E p \in 1..Len(doc) : \E l \in 1..Len(PageLines(p)) :
       Contribution(PageLines(p)[l]) = <<>>
  /\ \E p \in 1..Len(doc) : \E l \in 1..Len(PageLines(p)) :
       Len(Contribution(PageLines(p)[l])) = 2

\* C19: the topic stored with a question is the topic that was current when
\* its segment was opened.
C19_TopicFixedAtOpen ==
  Segmented =>
    \A k \in Issued("questions") : log[k].topic = opened[k].topic

\* C20: the source_page of a quarantine row is the page on which its segment
\* was opened.
C20_SourcePageOfOpening ==
  Segmented =>
    \A k \in Issued("parsing_errors") :
      parsing_errors[Cardinality({j \in Issued("parsing_errors") : j <= k})].source_page
        = opened[k].page

RECURSIVE MarkersIn(_)
\* the number of question-start markers in a string (re.finditer)
MarkersIn(s) ==
  LET m == QStartSearch(s)
  IN  IF m.found THEN 1 + MarkersIn(From(s, m.end + 1)) ELSE 0

RECURSIVE MarkersOf(_)
\* the number of question-start markers in the lines of a buffer
MarkersOf(lines) ==
  IF lines = <<>> THEN 0 ELSE MarkersIn(Head(lines)) + MarkersOf(Tail(lines))

\* C21: a flushed segment holds at most one question-start marker, so that
\* every marker of the stream opens a segment of its own, also when two
\* markers stand on the same physical line.
C21_OneMarkerPerSegment ==
  Segmented => \A k \in 1..Len(log) : MarkersOf(log[k].lines) <= 1

\* C22: after a run every image file is named from the question_number of
\* a question row whose image_path is that file; no file exists for a number
\* without a row.
C22_OneFilePerQuestion ==
  Complete =>
    \A f \in files :
      \E k \in 1..Len(questions) :
        /\ f = ImagePath(questions[k].question_number)
        /\ questions[k].image_path = f

\* neither the visual-options marker nor an option line gave an option
NoOptionFound(f) ==
  ~ImageOptionsSearch(f.q_text_raw) /\ OptionEntries(f) = <<>>

\* the cleaned body mentions "exhibit" or "refer to", in any case
MentionsExhibit(f) ==
  Contains(Lower(BodyText(f)), "exhibit") \/ Contains(Lower(BodyText(f)), "refer to")

\* C23: the fallback chain is ordered.  When no option was found, a body that
\* mentions "exhibit" or "refer to" gives the four image placeholders
\* whatever the type; the interactive placeholder is given exactly when no
\* option was found, the body mentions neither and the type is not standard;
\* options is empty exactly when no option was found, the body mentions
\* neither and the type is standard.
C23_FallbackOrder ==
  Segmented =>
    \A k \in Parsed :
      /\ NoOptionFound(log[k]) /\ MentionsExhibit(log[k])
           => log[k].options_list = ImagePlaceholders
      /\ log[k].options_list = InteractivePlaceholder
           <=> /\ NoOptionFound(log[k])
               /\ ~MentionsExhibit(log[k])
               /\ log[k].q_type # "standard"
      /\ log[k].options_list = <<>>
           <=> /\ NoOptionFound(log[k])
               /\ ~MentionsExhibit(log[k])
               /\ log[k].q_type = "standard"

\* C23 witness: a drag-and-drop segment without options whose body mentions
\* the exhibit has been given the four image placeholders.
C23_Witness ==
  /\ Segmented
  /\ \E k \in Parsed :
       /\ log[k].q_type = "drag_drop"
       /\ NoOptionFound(log[k])
       /\ MentionsExhibit(log[k])
       /\ log[k].options_list = ImagePlaceholders

\* C24: the recorded answers change only by the start of a new exam, which
\* empties them, or in a run of an active exam that is not submitted, finds
\* time remaining and leaves the exam not submitted.  So nothing changes
\* them once the exam is submitted, by the button or by the timer, until an
\* exam is started again, and a selection that comes when the time has
\* elapsed is not recorded.
C24_AnswersFrozen ==
  [][exam_answers' # exam_answers =>
       \/ ~exam_active /\ exam_active' /\ exam_answers' = <<>>
       \/ /\ exam_active /\ ~exam_submitted /\ ~expired
          /\ exam_active' /\ ~exam_submitted']_vars

\* C24 witness: an option was picked for a question after the time had
\* elapsed; the run submitted the exam and the question has no answer, while
\* an earlier selection is recorded.
C24_Witness ==
  /\ event = "select"
  /\ exam_active /\ exam_submitted /\ expired
  /\ CurrentId \notin DOMAIN exam_answers
  /\ exam_answers # <<>>

\* C25: the study mode marks a choice correct exactly when the results of
\* the exam mark the same choice correct for the same question.
C25_SameGrading ==
  study_verdict \in {"Correct", "Incorrect"} =>
    (study_verdict = "Correct"
       <=> ExamGrade(disk.questions[StudyId].correct_answer, study_choice))

\* C26: with rows to show, total_pages is the number of pages of page_size
\* rows the rows need, and the page the editor shows has a row.
C26_PageCount ==
  total_rows > 0 =>
    /\ TotalPages(total_rows) = (total_rows + page_size - 1) \div page_size
    /\ editor_page + 1 <= TotalPages(total_rows)
    /\ editor_rows >= 1

\* C27: while an exam is active, exam_current_idx is the index of one of
\* its questions.
C27_IndexInRange ==
  exam_active => exam_current_idx \in 0..(Len(exam_questions) - 1)

\* C27 witness: Next has brought an exam of several questions to its last
\* question, where Next is disabled.
C27_Witness ==
  /\ exam_active /\ ~exam_submitted
  /\ event = "next"
  /\ Len(exam_questions) > 1
  /\ exam_current_idx = Len(exam_questions) - 1

====
